---- MODULE Spec2Model ----
(***************************************************************************)
(* luogu-socket.ts: a Socket (one WebSocket at a time, replaced on every   *)
(* connect()) multiplexing Channels, with a join/retry handshake per       *)
(* Channel and a ping/pong heartbeat.                                      *)
(*                                                                         *)
(* Every handler of the source runs to completion (Node's event loop), so  *)
(* each handler, timer callback and public method is one action.  The      *)
(* WebSocket library is the environment: its readyState machine and the    *)
(* events it may deliver are the guards of the handler actions.            *)
(*                                                                         *)
(* WebSocket objects.  The handlers registered by connect() act on         *)
(* this._ws, the WebSocket the Socket references when they run, whichever  *)
(* WebSocket emitted the event.  connect() may replace a WebSocket that is *)
(* still CLOSING; such a replaced WebSocket keeps emitting events until    *)
(* its close event.  The model keeps the referenced WebSocket (ws, killed, *)
(* hbKilled) and the bag of replaced ones that are still CLOSING (stale).  *)
(*                                                                         *)
(* Timers.  setTimeout returns a handle and clearTimeout cancels exactly   *)
(* the timer of the handle it is given.  The source keeps one handle per   *)
(* field (_pingTimeout, Channel._joinTimeout) and overwrites it without    *)
(* clearing, so a timer whose handle was overwritten can only fire.  The   *)
(* model keeps, per field, the timer the field references (if it is still  *)
(* outstanding) and counts the outstanding timers whose handle is lost.    *)
(*                                                                         *)
(* Exceptions.  A throw inside a public method reaches the caller; a throw *)
(* inside an event handler or timer callback is uncaught and ends the      *)
(* process (crashed).                                                      *)
(***************************************************************************)
EXTENDS Integers, Sequences, FiniteSets, TLC

\* ---------------------------------------------------------------- bounds
MaxStale    == 1   \* replaced WebSocket objects that have not closed yet
MaxChannels == 1   \* Channel objects ever constructed
MaxLeaked   == 1   \* outstanding timers whose handle was overwritten, per field

\* join_channel frames and "join" notifications are counted up to this per join cycle
SentCap == MaxLeaked + 2

\* Channel objects in the runs that take a second Channel under a key already used
MaxObjects == MaxChannels + 1

\* channel names and params the consumer asks for
Names  == {"lobby"}
Params == {"", "42"}

\* close codes the transport may deliver (both boundaries of the test at line 153)
Codes   == {1000, 1001, 1006, 2000}
Reasons == {"bye"}
\* the code of a connection that ended without a close frame (terminate(), errors)
AbnormalCodes == {1006}

\* welcome_message values of join_result frames
Welcomes == {"hi"}

\* _ws_type of inbound frames
Kinds == {"server_broadcast", "join_result", "exclusive_kickoff", "heartbeat"}

\* what distinguishes two CLOSING WebSocket objects: killed (it ends without a
\* close frame) and hb (the pong-deadline timer of its own ping terminated it)
Flags == [killed : BOOLEAN, hb : BOOLEAN]

VARIABLES
  ws,           \* this._ws.readyState: CONNECTING, OPEN, CLOSING, CLOSED
  killed,       \* this._ws ends without a close frame: its close code is 1006
  hbKilled,     \* the pong-deadline timer of a ping written to this._ws called terminate() on it
  stale,        \* replaced WebSocket objects still CLOSING: how many, per Flags
  pingTimeout,  \* Socket._pingTimeout: kind of the referenced timer if outstanding, else "none"
  pingLeaked,   \* outstanding heartbeat timers no longer referenced by _pingTimeout, per kind
  pingedCur,    \* the referenced deadline timer follows a ping written to this._ws while OPEN
  channels,     \* Socket._channels: key -> Channel object (0: no entry)
  chan,         \* Channel objects constructed so far: their (channel, param), or NoChan
  joinTimeout,  \* Channel._joinTimeout references an outstanding timer
  joinLeaked,   \* outstanding join timers of the Channel whose handle was overwritten
  tracking,     \* join cycles are counted and the peer answers each join_channel at most once
  cycSent,      \* per Channel: join_channel frames sent since the last on-open (the join cycle)
  joinEvents,   \* per Channel: "join" notifications emitted since the last on-open
  crashed,      \* an exception escaped a handler or timer callback
  out           \* what the last reaction did: notifications emitted, frames written, ...

vars == <<ws, killed, hbKilled, stale, pingTimeout, pingLeaked, pingedCur, channels, chan,
          joinTimeout, joinLeaked, tracking, cycSent, joinEvents, crashed, out>>

\* the Channel objects a run can construct
Chans == DOMAIN chan

\* ------------------------------------------------------------- helpers
Min(a, b) == IF a < b THEN a ELSE b

\* a faulty variant: the key is made of the channel name alone
channelKey_NameOnly(channel, param) == "[\"" \o channel \o "\"]"

\* channelKey (line 64): JSON.stringify([channel, param]) of two plain strings
\* (Names and Params hold no character that JSON escapes)
channelKey(channel, param) == "[\"" \o channel \o "\",\"" \o param \o "\"]"

Keys == {channelKey(n, p) : n \in Names, p \in Params}

NoChan == [channel |-> "-", param |-> "-"]
KeyOf(c) == channelKey(chan[c].channel, chan[c].param)
Created(c) == chan[c] # NoChan

\* the test of the close handler (line 153)
Terminal(code) == code <= 1000 \/ code >= 2000

\* Socket.isOpen (line 179)
isOpen == ws = "OPEN"

\* a faulty variant: a WebSocket that is still CONNECTING does not count
AlreadyOpen_OpenOnly(w) == w = "OPEN"

\* the guard of connect() (line 133)
AlreadyOpen(w) == w \in {"CONNECTING", "OPEN"}

\* the last reaction
NoOut == [op |-> "init", stale |-> FALSE, killed |-> FALSE, hb |-> FALSE, known |-> FALSE, ch |-> 0, joined |-> FALSE,
          code |-> 0, emitted |-> <<>>, sent |-> {}, threw |-> FALSE, created |-> FALSE]

\* a timer whose handle is overwritten stays outstanding
Leak(pl, k) == IF k = "none" THEN pl ELSE [pl EXCEPT ![k] = @ + 1]

\* outstanding heartbeat timers, by kind
IdleTimers == pingLeaked.idle + (IF pingTimeout = "idle" THEN 1 ELSE 0)
DeadlineTimers == pingLeaked.deadline + (IF pingTimeout = "deadline" THEN 1 ELSE 0)

\* outstanding join retry timers of a Channel
JoinTimers(c) == joinLeaked[c] + (IF joinTimeout[c] THEN 1 ELSE 0)

StaleCount(st) == st[[killed |-> FALSE, hb |-> FALSE]] + st[[killed |-> FALSE, hb |-> TRUE]]
                  + st[[killed |-> TRUE, hb |-> FALSE]] + st[[killed |-> TRUE, hb |-> TRUE]]

\* ------------------------------------------------------------ WebSocket
\* The WebSocket an event comes from: this._ws (old = FALSE, f its flags) or
\* a replaced one with flags f (old = TRUE)
CurFlags == [killed |-> killed, hb |-> hbKilled]
IsSource(old, f) == IF old THEN stale[f] > 0 ELSE f = CurFlags

\* it can still deliver frames and pongs
Receiving(old, f) == IF old THEN ~f.killed ELSE (ws = "OPEN" \/ (ws = "CLOSING" /\ ~killed))

\* ws.terminate() on this._ws: nothing on a CLOSED socket; a CONNECTING or OPEN
\* one is destroyed without a close frame (CLOSING until its close event). A
\* socket that is CLOSING already is destroyed too: its close event carries the
\* peer's close code if the peer's close frame came in before, 1006 if not,
\* which are the close events of a CLOSING socket in any case.
TerminateWs(w) == IF w \in {"CONNECTING", "OPEN"} THEN "CLOSING" ELSE w
TerminateKilled(w, k) == IF w \in {"CONNECTING", "OPEN"} THEN TRUE ELSE k

\* ws.close() on this._ws: the closing handshake on an OPEN socket; an aborted
\* handshake on a CONNECTING one (no close frame will come)
CloseWs(w) == IF w \in {"CONNECTING", "OPEN"} THEN "CLOSING" ELSE w
CloseKilled(w, k) == IF w = "CONNECTING" THEN TRUE ELSE k

\* ws.send() / ws.ping() on this._ws: always throws while CONNECTING, never
\* while OPEN; on a CLOSING or CLOSED socket it throws or drops the data,
\* depending on the ws version in use
MayThrow(thr) ==
  /\ (ws = "CONNECTING" => thr)
  /\ (ws = "OPEN" => ~thr)

\* ------------------------------------------------------------- Channel
Registered == {channels[k] : k \in Keys} \ {0}

\* a faulty variant: only the Channels that have not been joined yet
OpenJoinSet_NotJoined == {c \in Registered : joinEvents[c] = 0}

\* the Channels the open handler calls _join() on (lines 137-138)
OpenJoinSet == Registered

\* a faulty variant: only the first _join() of a Channel, in channel(), gets to line 103
Rearm_FirstOnly(jt, J) == [c \in Chans |-> IF c \in J /\ ~Created(c) THEN TRUE ELSE jt[c]]

\* line 103: this._joinTimeout = setTimeout(...), for the Channels J that got past line 95
Rearm(jt, J) == [c \in Chans |-> IF c \in J THEN TRUE ELSE jt[c]]

\* the join_channel frames written by _join() of the Channels S (lines 95-102)
JoinFrames(S, open) == IF open THEN {<<"join_channel", KeyOf(c), c>> : c \in S} ELSE {}

\* Channel._join() (lines 94-104) of every Channel of S, within one reaction;
\* jt, jl: the join timers before it; cs: cycSent before it; open: isOpen
DoJoin(S, jt, jl, cs, open) ==
  LET J == IF open THEN S ELSE {} IN
  /\ joinTimeout' = Rearm(jt, J)
  /\ joinLeaked' = [c \in Chans |-> IF c \in J /\ jt[c] THEN jl[c] + 1 ELSE jl[c]]
  /\ \A c \in Chans : joinLeaked'[c] <= MaxLeaked
  /\ cycSent' = IF tracking
                THEN [c \in Chans |-> IF c \in J THEN Min(cs[c] + 1, SentCap) ELSE cs[c]]
                ELSE cycSent

\* ------------------------------------------------------------ heartbeat
\* Socket._heartbeat() (line 189): this._pingTimeout = setTimeout(..., 10000)
\* pt, pl: the heartbeat timers before the call
Heartbeat(pt, pl) ==
  /\ pingTimeout' = "idle"
  /\ pingLeaked' = Leak(pl, pt)
  /\ pingLeaked'.idle + pingLeaked'.deadline <= MaxLeaked
  /\ pingedCur' = FALSE

\* ------------------------------------------------------------- connect
\* Socket.connect() past its guard (line 135): a new WebSocket replaces _ws;
\* the replaced one, if it has not closed yet, stays around
\* w, k, hk, st: the WebSocket objects before the call
NewWebSocket(w, k, hk, st) ==
  /\ ws' = "CONNECTING"
  /\ killed' = FALSE
  /\ hbKilled' = FALSE
  /\ stale' = IF w = "CLOSING" THEN [st EXCEPT ![[killed |-> k, hb |-> hk]] = @ + 1] ELSE st
  /\ StaleCount(stale') <= MaxStale

InitCore ==
  /\ ws = "CONNECTING"
  /\ killed = FALSE
  /\ hbKilled = FALSE
  /\ stale = [f \in Flags |-> 0]
  /\ pingTimeout = "none"
  /\ pingLeaked = [idle |-> 0, deadline |-> 0]
  /\ pingedCur = FALSE
  /\ channels = [k \in Keys |-> 0]
  /\ joinTimeout = [c \in Chans |-> FALSE]
  /\ joinLeaked = [c \in Chans |-> 0]
  /\ cycSent = [c \in Chans |-> 0]
  /\ joinEvents = [c \in Chans |-> 0]
  /\ crashed = FALSE
  /\ out = NoOut

\* the state after new Socket(url) (lines 127-130)
Init == chan = [c \in 1..MaxChannels |-> NoChan] /\ InitCore /\ tracking = FALSE

\* the same, with the join cycles counted
InitTracking == chan = [c \in 1..MaxChannels |-> NoChan] /\ InitCore /\ tracking = TRUE

\* the same, with room for one more Channel object
InitRegistry == chan = [c \in 1..MaxObjects |-> NoChan] /\ InitCore /\ tracking = FALSE

\* ---------------------------------------------------- WebSocket handlers
\* .on("open") (lines 136-141); only the referenced WebSocket can be CONNECTING
OnOpen ==
  /\ ~crashed
  /\ ws = "CONNECTING"
  /\ LET S == OpenJoinSet IN
     /\ ws' = "OPEN"
     /\ DoJoin(S, joinTimeout, joinLeaked, [c \in Chans |-> IF c \in S THEN 0 ELSE cycSent[c]], TRUE)
     /\ joinEvents' = [c \in Chans |-> IF c \in S THEN 0 ELSE joinEvents[c]]
     /\ Heartbeat(pingTimeout, pingLeaked)
     /\ out' = [NoOut EXCEPT !.op = "open", !.emitted = << <<"open", 0, 0, "">> >>,
                             !.sent = JoinFrames(S, TRUE),
                             !.joined = \E c \in Registered : joinEvents[c] > 0]
  /\ UNCHANGED <<killed, hbKilled, stale, channels, chan, tracking, crashed>>

\* .on("pong") (lines 142-145)
OnPong(old, f) ==
  /\ ~crashed
  /\ IsSource(old, f)
  /\ Receiving(old, f)
  /\ Heartbeat("none", pingLeaked)
  /\ out' = [NoOut EXCEPT !.op = "pong", !.stale = old]
  /\ UNCHANGED <<ws, killed, hbKilled, stale, channels, chan, joinTimeout, joinLeaked,
                 tracking, cycSent, joinEvents, crashed>>

\* a faulty variant: a frame without a Channel of its own goes to a Channel
\* registered under the same channel name
Lookup_ByName(key) ==
  LET n == CHOOSE n \in Names : \E p \in Params : channelKey(n, p) = key
      S == {c \in Registered : chan[c].channel = n}
  IN IF channels[key] # 0 THEN channels[key]
     ELSE IF S = {} THEN 0 ELSE CHOOSE c \in S : TRUE

\* the Channel the message handler hands the frame to (line 149), 0: none
Lookup(key) == channels[key]

\* Channel._onMessage (lines 106-119): the notification emitted
Notification(c, kind, text) ==
  CASE kind = "server_broadcast"  -> << <<"message", c, 0, "">> >>
    [] kind = "join_result"       -> << <<"join", c, 0, text>> >>
    [] kind = "exclusive_kickoff" -> << <<"kick", c, 0, "">> >>
    [] OTHER                      -> <<>>

\* The peer answers a join_channel frame with at most one join_result: a
\* join_result for a registered Channel answers a frame of its running join
\* cycle that is not answered yet.
PeerMaySend(kind, key) ==
  (tracking /\ kind = "join_result" /\ channels[key] # 0)
    => joinEvents[channels[key]] < cycSent[channels[key]]

\* a faulty variant: a Channel that is kicked off leaves the registry
OnMessage_KickRemoves(old, f, kind, key, text) ==
  /\ ~crashed
  /\ IsSource(old, f)
  /\ Receiving(old, f)
  /\ PeerMaySend(kind, key)
  /\ LET c == Lookup(key)
         jr == c # 0 /\ kind = "join_result"
     IN
     /\ joinTimeout' = IF jr THEN [joinTimeout EXCEPT ![c] = FALSE] ELSE joinTimeout
     /\ joinEvents' = IF jr /\ tracking THEN [joinEvents EXCEPT ![c] = Min(@ + 1, SentCap)]
                      ELSE joinEvents
     /\ channels' = IF c # 0 /\ kind = "exclusive_kickoff"
                    THEN [channels EXCEPT ![key] = 0] ELSE channels
     /\ out' = [NoOut EXCEPT !.op = "message", !.known = (channels[key] # 0), !.ch = c,
                             !.emitted = IF c = 0 THEN <<>> ELSE Notification(c, kind, text)]
  /\ UNCHANGED <<ws, killed, hbKilled, stale, pingTimeout, pingLeaked, pingedCur, chan,
                 joinLeaked, tracking, cycSent, crashed>>

\* .on("message") (lines 146-150), for a well-formed frame
OnMessage(old, f, kind, key, text) ==
  /\ ~crashed
  /\ IsSource(old, f)
  /\ Receiving(old, f)
  /\ PeerMaySend(kind, key)
  /\ LET c == Lookup(key)
         jr == c # 0 /\ kind = "join_result"
     IN
     /\ joinTimeout' = IF jr THEN [joinTimeout EXCEPT ![c] = FALSE] ELSE joinTimeout
     /\ joinEvents' = IF jr /\ tracking THEN [joinEvents EXCEPT ![c] = Min(@ + 1, SentCap)]
                      ELSE joinEvents
     /\ out' = [NoOut EXCEPT !.op = "message", !.known = (channels[key] # 0), !.ch = c,
                             !.emitted = IF c = 0 THEN <<>> ELSE Notification(c, kind, text)]
  /\ UNCHANGED <<ws, killed, hbKilled, stale, pingTimeout, pingLeaked, pingedCur, channels, chan,
                 joinLeaked, tracking, cycSent, crashed>>

\* .on("close") (lines 151-161)
OnClose(old, f, code, reason) ==
  /\ ~crashed
  /\ IsSource(old, f)
  /\ ~old => ws \in {"OPEN", "CLOSING"}
  /\ f.killed => code \in AbnormalCodes
  /\ LET w1 == IF old THEN ws ELSE "CLOSED"
         st1 == IF old THEN [stale EXCEPT ![f] = @ - 1] ELSE stale
         o == [NoOut EXCEPT !.op = "close", !.stale = old, !.killed = f.killed, !.hb = f.hb,
                            !.code = code]
     IN
     /\ pingTimeout' = "none"
     /\ pingedCur' = FALSE
     /\ IF Terminal(code)
        THEN /\ out' = [o EXCEPT !.emitted = << <<"close", 0, code, reason>> >>]
             /\ ws' = w1
             /\ stale' = st1
             /\ UNCHANGED <<killed, hbKilled, crashed>>
        ELSE IF AlreadyOpen(w1)
        THEN /\ out' = [o EXCEPT !.emitted = << <<"reconnect", 0, code, reason>> >>, !.threw = TRUE]
             /\ ws' = w1
             /\ stale' = st1
             /\ crashed' = TRUE
             /\ UNCHANGED <<killed, hbKilled>>
        ELSE /\ out' = [o EXCEPT !.emitted = << <<"reconnect", 0, code, reason>> >>, !.created = TRUE]
             /\ NewWebSocket(w1, killed, hbKilled, st1)
             /\ UNCHANGED crashed
  /\ UNCHANGED <<pingLeaked, channels, chan, joinTimeout, joinLeaked, tracking, cycSent, joinEvents>>

\* .on("error") (line 162): this._ws.terminate(); the failing socket itself is
\* already on its way to an abnormal close when the handler runs
OnError(old, f) ==
  /\ ~crashed
  /\ IsSource(old, f)
  /\ ~old => ws \in {"CONNECTING", "OPEN", "CLOSING"}
  /\ LET w1 == IF old THEN ws ELSE "CLOSING"
         k1 == IF old THEN killed ELSE TRUE
     IN
     /\ ws' = TerminateWs(w1)
     /\ killed' = TerminateKilled(w1, k1)
  /\ stale' = IF old THEN [[stale EXCEPT ![f] = @ - 1] EXCEPT ![[f EXCEPT !.killed = TRUE]] = @ + 1]
              ELSE stale
  /\ out' = [NoOut EXCEPT !.op = "error", !.stale = old]
  /\ UNCHANGED <<hbKilled, pingTimeout, pingLeaked, pingedCur, channels, chan, joinTimeout,
                 joinLeaked, tracking, cycSent, joinEvents, crashed>>

\* ------------------------------------------------------ timer callbacks
\* the retry timer of Channel._join fires (line 103): this._join()
JoinTimerFires(c, leaked) ==
  /\ ~crashed
  /\ Created(c)
  /\ IF leaked THEN joinLeaked[c] > 0 ELSE joinTimeout[c]
  /\ LET jt == IF leaked THEN joinTimeout ELSE [joinTimeout EXCEPT ![c] = FALSE]
         jl == IF leaked THEN [joinLeaked EXCEPT ![c] = @ - 1] ELSE joinLeaked
     IN
     /\ DoJoin({c}, jt, jl, cycSent, isOpen)
     /\ out' = [NoOut EXCEPT !.op = "joinTimer", !.ch = c, !.sent = JoinFrames({c}, isOpen),
                             !.joined = (joinEvents[c] > 0 /\ c \in Registered)]
  /\ UNCHANGED <<ws, killed, hbKilled, stale, pingTimeout, pingLeaked, pingedCur, channels, chan,
                 tracking, joinEvents, crashed>>

\* the 10 s timer of _heartbeat fires (lines 189-192): ping, then arm the deadline
PingTimerFires(leaked, thr) ==
  /\ ~crashed
  /\ IF leaked THEN pingLeaked.idle > 0 ELSE pingTimeout = "idle"
  /\ MayThrow(thr)
  /\ LET pt == IF leaked THEN pingTimeout ELSE "none"
         pl == IF leaked THEN [pingLeaked EXCEPT !.idle = @ - 1] ELSE pingLeaked
     IN
     IF thr
     THEN /\ pingTimeout' = pt
          /\ pingLeaked' = pl
          /\ crashed' = TRUE
          /\ out' = [NoOut EXCEPT !.op = "pingTimer", !.threw = TRUE]
          /\ UNCHANGED pingedCur
     ELSE /\ pingTimeout' = "deadline"
          /\ pingLeaked' = Leak(pl, pt)
          /\ pingedCur' = isOpen
          /\ out' = [NoOut EXCEPT !.op = "pingTimer",
                                  !.sent = IF isOpen THEN {<<"ping", "", 0>>} ELSE {}]
          /\ UNCHANGED crashed
  /\ UNCHANGED <<ws, killed, hbKilled, stale, channels, chan, joinTimeout, joinLeaked,
                 tracking, cycSent, joinEvents>>

\* the 1 s timer armed after the ping fires (line 191): this._ws.terminate()
DeadlineTimerFires(leaked) ==
  /\ ~crashed
  /\ IF leaked THEN pingLeaked.deadline > 0 ELSE pingTimeout = "deadline"
  /\ pingTimeout' = IF leaked THEN pingTimeout ELSE "none"
  /\ pingLeaked' = IF leaked THEN [pingLeaked EXCEPT !.deadline = @ - 1] ELSE pingLeaked
  /\ pingedCur' = IF leaked THEN pingedCur ELSE FALSE
  /\ ws' = TerminateWs(ws)
  /\ killed' = TerminateKilled(ws, killed)
  /\ hbKilled' = IF ~leaked /\ pingedCur /\ ws # "CLOSED" THEN TRUE ELSE hbKilled
  /\ out' = [NoOut EXCEPT !.op = "deadlineTimer", !.hb = hbKilled']
  /\ UNCHANGED <<stale, channels, chan, joinTimeout, joinLeaked, tracking, cycSent,
                 joinEvents, crashed>>

\* ------------------------------------------------------- consumer calls
\* Socket.channel(channel, param) (lines 165-173)
Channel(channel, param) ==
  /\ ~crashed
  /\ LET key == channelKey(channel, param) IN
     IF channels[key] # 0
     THEN /\ out' = [NoOut EXCEPT !.op = "channel", !.ch = channels[key]]
          /\ UNCHANGED <<channels, chan, joinTimeout, joinLeaked, cycSent>>
     ELSE /\ \E c \in Chans : ~Created(c)
          /\ LET c == CHOOSE c \in Chans : ~Created(c) /\ \A d \in Chans : ~Created(d) => c <= d IN
             /\ chan' = [chan EXCEPT ![c] = [channel |-> channel, param |-> param]]
             /\ channels' = [channels EXCEPT ![key] = c]
             /\ DoJoin({c}, joinTimeout, joinLeaked, cycSent, isOpen)
             /\ out' = [NoOut EXCEPT !.op = "channel", !.ch = c, !.created = TRUE,
                          !.sent = IF isOpen THEN {<<"join_channel", key, c>>} ELSE {}]
  /\ UNCHANGED <<ws, killed, hbKilled, stale, pingTimeout, pingLeaked, pingedCur, tracking,
                 joinEvents, crashed>>

\* a faulty variant: quit() with clearTimeout(this._joinTimeout)
Quit_Cancels(c, thr) ==
  /\ ~crashed
  /\ Created(c)
  /\ MayThrow(thr)
  /\ channels' = IF thr THEN channels ELSE [channels EXCEPT ![KeyOf(c)] = 0]
  /\ joinTimeout' = IF thr THEN joinTimeout ELSE [joinTimeout EXCEPT ![c] = FALSE]
  /\ out' = [NoOut EXCEPT !.op = "quit", !.ch = c, !.threw = thr,
                          !.sent = IF isOpen THEN {<<"disconnect_channel", KeyOf(c), c>>} ELSE {}]
  /\ UNCHANGED <<ws, killed, hbKilled, stale, pingTimeout, pingLeaked, pingedCur, chan,
                 joinLeaked, tracking, cycSent, joinEvents, crashed>>

\* Channel.quit() (lines 84-92); a throw of _send reaches the caller
Quit(c, thr) ==
  /\ ~crashed
  /\ Created(c)
  /\ MayThrow(thr)
  /\ channels' = IF thr THEN channels ELSE [channels EXCEPT ![KeyOf(c)] = 0]
  /\ out' = [NoOut EXCEPT !.op = "quit", !.ch = c, !.threw = thr,
                          !.sent = IF isOpen THEN {<<"disconnect_channel", KeyOf(c), c>>} ELSE {}]
  /\ UNCHANGED <<ws, killed, hbKilled, stale, pingTimeout, pingLeaked, pingedCur, chan, joinTimeout,
                 joinLeaked, tracking, cycSent, joinEvents, crashed>>

\* Channel.send(obj) (lines 75-82)
Send(c, thr) ==
  /\ ~crashed
  /\ Created(c)
  /\ MayThrow(thr)
  /\ out' = [NoOut EXCEPT !.op = "send", !.ch = c, !.threw = thr,
                          !.sent = IF isOpen THEN {<<"data", KeyOf(c), c>>} ELSE {}]
  /\ UNCHANGED <<ws, killed, hbKilled, stale, pingTimeout, pingLeaked, pingedCur, channels, chan,
                 joinTimeout, joinLeaked, tracking, cycSent, joinEvents, crashed>>

\* Socket.close() (lines 175-177)
Close ==
  /\ ~crashed
  /\ ws' = CloseWs(ws)
  /\ killed' = CloseKilled(ws, killed)
  /\ out' = [NoOut EXCEPT !.op = "closeCall"]
  /\ UNCHANGED <<hbKilled, stale, pingTimeout, pingLeaked, pingedCur, channels, chan, joinTimeout,
                 joinLeaked, tracking, cycSent, joinEvents, crashed>>

\* Socket.connect() called by the consumer (lines 132-163)
Connect ==
  /\ ~crashed
  /\ IF AlreadyOpen(ws)
     THEN /\ out' = [NoOut EXCEPT !.op = "connect", !.threw = TRUE]
          /\ UNCHANGED <<ws, killed, hbKilled, stale, pingedCur>>
     ELSE /\ NewWebSocket(ws, killed, hbKilled, stale)
          /\ pingedCur' = FALSE
          /\ out' = [NoOut EXCEPT !.op = "connect", !.created = TRUE]
  /\ UNCHANGED <<pingTimeout, pingLeaked, channels, chan, joinTimeout, joinLeaked,
                 tracking, cycSent, joinEvents, crashed>>

\* --------------------------------------------------------- specifications
\* The heartbeat reads and writes the WebSocket objects and its own timers
\* only, and the Channels read this._ws only: SpecChannels runs the Socket
\* with Channels over a period shorter than the heartbeat's 10 s, and
\* SpecHeartbeat runs the heartbeat of a Socket without Channels.
NextChannels ==
  \/ OnOpen
  \/ \E old \in BOOLEAN, f \in Flags, kind \in Kinds, key \in Keys :
       \E text \in (IF kind = "join_result" THEN Welcomes ELSE {""}) :
         OnMessage(old, f, kind, key, text)
  \/ \E old \in BOOLEAN, f \in Flags, code \in Codes, reason \in Reasons : OnClose(old, f, code, reason)
  \/ \E old \in BOOLEAN, f \in Flags : OnError(old, f)
  \/ \E c \in Chans, leaked \in BOOLEAN : JoinTimerFires(c, leaked)
  \/ \E n \in Names, p \in Params : Channel(n, p)
  \/ \E c \in Chans, thr \in BOOLEAN : Quit(c, thr)
  \/ Close
  \/ Connect

NextHeartbeat ==
  \/ OnOpen
  \/ \E old \in BOOLEAN, f \in Flags : OnPong(old, f)
  \/ \E old \in BOOLEAN, f \in Flags, code \in Codes, reason \in Reasons : OnClose(old, f, code, reason)
  \/ \E old \in BOOLEAN, f \in Flags : OnError(old, f)
  \/ \E leaked \in BOOLEAN, thr \in BOOLEAN : PingTimerFires(leaked, thr)
  \/ \E leaked \in BOOLEAN : DeadlineTimerFires(leaked)
  \/ Close
  \/ Connect

Next ==
  \/ NextChannels
  \/ NextHeartbeat
  \/ \E c \in Chans, thr \in BOOLEAN : Send(c, thr)

Spec == Init /\ [][Next]_vars
SpecChannels == Init /\ [][NextChannels]_vars
SpecJoinCycle == InitTracking /\ [][NextChannels]_vars
SpecHeartbeat == Init /\ [][NextHeartbeat]_vars
SpecRegistry == InitRegistry /\ [][NextChannels]_vars

\* ------------------------------------------------------------- claims
\* the notifications of the last reaction
Emits(name) == Len(out.emitted) = 1 /\ out.emitted[1][1] = name
EmitsWith(name, code) ==
  /\ Emits(name)
  /\ out.emitted[1][3] = code
  /\ out.emitted[1][4] \in Reasons

\* C1: every close event handled by the close handler with a code c <= 1000
\* or c >= 2000 emits "close" with (code, reason) and creates no WebSocket;
\* with any other code it emits "reconnect" with (code, reason) and connect()
\* creates a fresh WebSocket.
C1_CloseCodeDecides ==
  out.op = "close" =>
    IF out.code <= 1000 \/ out.code >= 2000
    THEN EmitsWith("close", out.code) /\ ~out.created /\ ~out.threw
    ELSE EmitsWith("reconnect", out.code) /\ out.created /\ ~out.threw

\* C2: in every reachable state each Channel has at most one join retry timer
\* outstanding.
C2_OneJoinTimer == \A c \in Chans : JoinTimers(c) <= 1

\* C3: once a join_result has been dispatched to a registered Channel, no
\* join_channel frame is sent for it before the next open event: a retry
\* timer of such a Channel that fires sends nothing.
C3_NoJoinAfterResult ==
  (out.op = "joinTimer" /\ out.joined) => out.sent = {}

\* C4: in a join cycle of a Channel in which the peer has answered every
\* join_channel frame with a join_result, the "join" notification has been
\* emitted exactly once.
C4_JoinOncePerCycle ==
  \A c \in Registered :
    (cycSent[c] >= 1 /\ cycSent[c] < SentCap /\ joinEvents[c] = cycSent[c]) => joinEvents[c] = 1

\* C5: on every open event a join_channel frame is sent for every registered
\* Channel, joined before or not, and each of them is pending again (not
\* joined) with its retry timer scheduled.
C5_OpenRejoinsAll ==
  out.op = "open" =>
    /\ out.sent = {<<"join_channel", KeyOf(c), c>> : c \in Registered}
    /\ \A c \in Registered : joinTimeout[c] /\ cycSent[c] = 1 /\ joinEvents[c] = 0

\* an open event with a registered Channel that was joined on the WebSocket before
C5_Witness ==
  /\ out.op = "open"
  /\ out.joined
  /\ \E c \in Registered : <<"join_channel", KeyOf(c), c>> \in out.sent /\ joinTimeout[c]

\* C6: while the Socket is open, a retry timer that fires always sends one
\* join_channel frame for its Channel and schedules exactly one next retry
\* (the Channel has as many retry timers outstanding after it as before, the
\* referenced one among them), without any cap.
C6_RetryRepeats ==
  [][\A c \in Chans :
       (out'.op = "joinTimer" /\ out'.ch = c /\ isOpen) =>
         /\ out'.sent = {<<"join_channel", KeyOf(c), c>>}
         /\ joinTimeout'[c]
         /\ JoinTimers(c)' = JoinTimers(c)]_vars

\* the only retry timer of a registered Channel has fired on an open Socket:
\* no join_result came in since it was armed
C6_Witness ==
  /\ out.op = "joinTimer"
  /\ isOpen
  /\ out.ch \in Registered
  /\ out.sent = {<<"join_channel", KeyOf(out.ch), out.ch>>}
  /\ joinTimeout[out.ch]
  /\ JoinTimers(out.ch) = 1

\* C7: a WebSocket terminated by the deadline timer after an unanswered ping
\* leads to "reconnect", never to "close", and to a new WebSocket.
C7_DeadlineReconnects ==
  (out.op = "close" /\ out.hb) =>
    Emits("reconnect") /\ out.created /\ ~out.threw

\* C8: a heartbeat timer (idle or deadline) is outstanding only while the
\* current WebSocket is open.
C8_TimersOnlyWhileOpen ==
  (IdleTimers + DeadlineTimers > 0) => ws = "OPEN"

\* C9: at most one idle timer and at most one deadline timer are outstanding
\* in every reachable state.
C9_OneTimerOfEachKind == IdleTimers <= 1 /\ DeadlineTimers <= 1

\* C10: an inbound frame of any kind whose key has no Channel in the registry
\* changes neither the registry nor a join retry timer nor a heartbeat timer
\* nor a WebSocket, emits nothing and raises no error.
C10_UnmatchedFrameDropped ==
  [][(out'.op = "message" /\ ~out'.known) =>
       /\ UNCHANGED <<ws, killed, hbKilled, stale, pingTimeout, pingLeaked, pingedCur, channels,
                      chan, joinTimeout, joinLeaked, cycSent, joinEvents, crashed>>
       /\ out'.emitted = <<>>
       /\ out'.sent = {}
       /\ ~out'.threw]_vars

\* a frame dropped although a Channel is registered, or after its Channel quit
C10_Witness ==
  /\ out.op = "message"
  /\ ~out.known
  /\ out.ch = 0
  /\ out.emitted = <<>>
  /\ \E c \in Chans : Created(c)

\* C11: channel(name, param) returns a Channel of that (name, param); if one
\* is registered for the pair already the request returns that very Channel,
\* creates nothing and sends no join; a Channel registered for a different
\* pair is never returned.
C11_SameKeySameChannel ==
  [][\A n \in Names, p \in Params :
       Channel(n, p) =>
         /\ out'.ch \in Chans
         /\ chan'[out'.ch] = [channel |-> n, param |-> p]
         /\ \A c \in Registered :
              IF chan[c] = [channel |-> n, param |-> p]
              THEN /\ out'.ch = c
                   /\ ~out'.created
                   /\ out'.sent = {}
                   /\ UNCHANGED <<channels, chan, joinTimeout, joinLeaked>>
              ELSE out'.ch # c]_vars

\* a second request for a registered pair, with a Channel of another pair registered too
C11_Witness ==
  /\ out.op = "channel"
  /\ ~out.created
  /\ out.ch \in Registered
  /\ \E c \in Registered : c # out.ch /\ chan[c] # chan[out.ch]

\* C12: in every reachable state a Channel is in the registry if and only if
\* a join_channel frame has been sent for it at least once.
C12_RegisteredIffJoinSent ==
  \A c \in Chans : Created(c) => (c \in Registered <=> cycSent[c] >= 1)

\* C13: connect() while the WebSocket is CONNECTING or OPEN throws to its
\* caller and changes nothing (WebSocket, registry, timers); in any other
\* state of the WebSocket it creates a fresh, CONNECTING one.
C13_ConnectFailsFast ==
  [][out'.op = "connect" =>
       IF ws \in {"CONNECTING", "OPEN"}
       THEN /\ out'.threw
            /\ ~out'.created
            /\ UNCHANGED <<ws, killed, hbKilled, stale, pingTimeout, pingLeaked, pingedCur,
                           channels, chan, joinTimeout, joinLeaked, crashed>>
       ELSE /\ ~out'.threw
            /\ out'.created
            /\ ws' = "CONNECTING"
            /\ ~killed']_vars

\* connect() refused on a Socket with a registered Channel and timers outstanding
C13_Witness ==
  /\ out.op = "connect"
  /\ out.threw
  /\ ws \in {"CONNECTING", "OPEN"}
  /\ Registered # {}
  /\ pingTimeout # "none"
  /\ \E c \in Chans : joinTimeout[c]

\* C14: a registry entry is removed by quit() only; every reaction other than
\* the consumer's quit() and channel() (inbound frames of any kind, open,
\* close, reconnect, error, pong, timers, close(), connect()) leaves the set
\* of registry keys as it is.
C14_OnlyQuitRemoves ==
  [][/\ (\E k \in Keys : channels[k] # 0 /\ channels'[k] # channels[k]) => out'.op = "quit"
     /\ out'.op \notin {"quit", "channel"} =>
          \A k \in Keys : (channels[k] # 0) <=> (channels'[k] # 0)]_vars

\* a "kick" notification of a Channel that is registered after it
C14_Witness ==
  /\ out.op = "message"
  /\ Emits("kick")
  /\ out.ch \in Registered

\* C15: quit() on an open Socket sends disconnect_channel and removes the
\* registry entry but leaves the retry timers of the Channel outstanding; a
\* retry timer of a Channel that is not registered any more still sends
\* join_channel and re-arms itself while the Socket is open, and an inbound
\* frame without a Channel in the registry cancels no retry timer.
C15_QuitLeavesRetry ==
  [][\A c \in Chans :
       /\ (out'.op = "quit" /\ out'.ch = c /\ isOpen /\ c \in Registered) =>
            /\ out'.sent = {<<"disconnect_channel", KeyOf(c), c>>}
            /\ channels'[KeyOf(c)] = 0
            /\ UNCHANGED <<joinTimeout, joinLeaked>>
       /\ (out'.op = "joinTimer" /\ out'.ch = c /\ isOpen /\ c \notin Registered) =>
            /\ out'.sent = {<<"join_channel", KeyOf(c), c>>}
            /\ joinTimeout'[c]
            /\ JoinTimers(c)' = JoinTimers(c)
       /\ (out'.op = "message" /\ ~out'.known /\ c \notin Registered) =>
            /\ joinTimeout'[c] = joinTimeout[c]
            /\ joinLeaked'[c] = joinLeaked[c]]_vars

\* the retry timer of a Channel that has quit fires on an open Socket
C15_Witness ==
  /\ out.op = "joinTimer"
  /\ isOpen
  /\ Created(out.ch)
  /\ out.ch \notin Registered
  /\ out.sent = {<<"join_channel", KeyOf(out.ch), out.ch>>}
  /\ joinTimeout[out.ch]

\* C16: after a pong of the open WebSocket the Socket references has been
\* handled, no deadline timer is outstanding and the 10 s idle timer runs
\* anew, so that no deadline timer terminates a WebSocket that answers its
\* pings in time.
C16_PongCancelsDeadline ==
  (out.op = "pong" /\ ~out.stale /\ isOpen) =>
    DeadlineTimers = 0 /\ pingTimeout = "idle"

\* C17: the error handler terminates the WebSocket and emits nothing; the
\* close event of a WebSocket that ended in an error is abnormal (1006), so
\* "reconnect" is emitted and connect() creates a new WebSocket, every time.
C17_ErrorReconnects ==
  /\ out.op = "error" => (out.emitted = <<>> /\ ws \notin {"CONNECTING", "OPEN"})
  /\ (out.op = "close" /\ out.killed /\ ~out.hb) =>
       /\ out.code \in AbnormalCodes
       /\ Emits("reconnect")
       /\ out.created
       /\ ~out.threw

\* C18: a key of the registry keeps its Channel until that very Channel is
\* quit: quit() on another Channel object (one that quit before and whose key
\* has a new Channel since) leaves the entry alone.
C18_QuitRemovesOnlyItself ==
  [][\A k \in Keys :
       (channels[k] # 0 /\ channels'[k] # channels[k]) =>
         (out'.op = "quit" /\ out'.ch = channels[k])]_vars

\* C19: a close or error event of a WebSocket that has been replaced does not
\* act on the WebSocket the Socket references now: it leaves that WebSocket
\* and the heartbeat timer alone and does not run into connect() throwing.
C19_ReplacedWebSocketInert ==
  [][(out'.stale /\ out'.op \in {"close", "error"}) =>
       /\ pingTimeout' = pingTimeout
       /\ (ws \in {"CONNECTING", "OPEN"} => (ws' = ws /\ killed' = killed))
       /\ ~out'.threw
       /\ ~crashed']_vars

\* C20: after the close event of the referenced WebSocket with a terminal
\* code (<= 1000 or >= 2000) the Socket is quiescent: "close" is emitted,
\* no WebSocket is created, the Socket is not open (a retry timer that fires
\* sends nothing and is not re-armed) and no heartbeat timer is outstanding.
C20_TerminalCloseQuiesces ==
  (out.op = "close" /\ ~out.stale /\ (out.code <= 1000 \/ out.code >= 2000)) =>
    /\ Emits("close")
    /\ ~out.created
    /\ ws = "CLOSED"
    /\ IdleTimers + DeadlineTimers = 0
====
